---- MODULE Spec2Model ----
(***************************************************************************)
(* The CSV-to-JSON converter of src/src/App.tsx as a state machine.        *)
(*                                                                         *)
(* The state is the six React state cells of App, the parses handed to     *)
(* Papa.parse whose callback has not run yet (each with the values its     *)
(* callbacks closed over), the pending run of the derivation effect, and   *)
(* the last file handed to the browser as a download.  Every event handler *)
(* is one action with all its setState calls batched into one render.      *)
(* React flushes the effects of a render before it starts a new update, so *)
(* a handler is taken only when no effect is pending.                      *)
(***************************************************************************)
EXTENDS Integers, Sequences, FiniteSets, TLC

VARIABLES
    data,              \* useState<ParsedData[] | null>          App.tsx:16
    filteredData,      \* useState<Record<string,string> | null> App.tsx:17
    error,             \* useState<string | null>                App.tsx:18
    isLoading,         \* useState(false)                        App.tsx:19
    selectedLanguage,  \* useState('ENGLISH')                    App.tsx:20
    autoDownload,      \* useState(true)                         App.tsx:21
    inflight,          \* parses started by Papa.parse, callback not yet invoked
    uploads,           \* number of parses started so far
    effectPending,     \* the deps of useEffect changed in the last render
    download,          \* the last file clicked into the browser by downloadJson
    event              \* the handler that produced the current state (with the
                       \* rows the parser delivered, for a completion)

vars == <<data, filteredData, error, isLoading, selectedLanguage, autoDownload,
          inflight, uploads, effectPending, download, event>>

-----------------------------------------------------------------------------
(* Bounds *)

NumLanguages == 2      \* how many entries of languageOptions the user picks from
MaxUploads == 2        \* how many files are chosen in one run
NumFiles == 3          \* how many of the sample parse results a parse may deliver
MaxRows == 2           \* longest row list the projection is applied to on its own

-----------------------------------------------------------------------------
(* Nullable state cells: null is the empty tuple, a value v is <<v>>. *)

Null == << >>
Some(v) == << v >>
Val(o) == o[1]

-----------------------------------------------------------------------------
(* Cell values of a parsed row (ParsedData) and JavaScript's typeof. *)

Str(s) == [t |-> "string", v |-> s]
Num(s) == [t |-> "number", v |-> s]
Bool(s) == [t |-> "boolean", v |-> s]
NullCell == [t |-> "null", v |-> "null"]
Undefined == [t |-> "undefined", v |-> "undefined"]

TypeOf(c) == IF c.t = "null" THEN "object" ELSE c.t

\* item[name]: a field the row does not have reads as undefined
Get(item, name) == IF name \in DOMAIN item THEN item[name] ELSE Undefined

-----------------------------------------------------------------------------
(* config/languages.ts *)

languageOptions ==
    << "TÜRKÇE", "ENGLISH", "FRENCH", "GERMAN", "JAPANESE",
       "PORTUGUESE-BRAZIL", "SPANISH", "RUSSIAN", "INDONESIAN" >>

Languages ==
    { languageOptions[i] : i \in 1..(IF NumLanguages < Len(languageOptions)
                                     THEN NumLanguages ELSE Len(languageOptions)) }

\* String.prototype.toLowerCase on the option values
ToLowerCase(s) ==
    CASE s = "TÜRKÇE" -> "türkçe"
      [] s = "ENGLISH" -> "english"
      [] s = "FRENCH" -> "french"
      [] s = "GERMAN" -> "german"
      [] s = "JAPANESE" -> "japanese"
      [] s = "PORTUGUESE-BRAZIL" -> "portuguese-brazil"
      [] s = "SPANISH" -> "spanish"
      [] s = "RUSSIAN" -> "russian"
      [] s = "INDONESIAN" -> "indonesian"

-----------------------------------------------------------------------------
(* Record<string,string>: the entries in insertion order, as <<key, value>>. *)

HasKey(m, k) == \E i \in 1..Len(m) : m[i][1] = k
Keys(m) == { m[i][1] : i \in 1..Len(m) }

\* acc[key] = value: a key already present keeps its place and takes the value
\* (variant: a key already present keeps its first value)
PutFirstWins(acc, k, v) == IF HasKey(acc, k) THEN acc ELSE Append(acc, <<k, v>>)
Put(acc, k, v) ==
    IF HasKey(acc, k)
    THEN [i \in 1..Len(acc) |-> IF acc[i][1] = k THEN <<k, v>> ELSE acc[i]]
    ELSE Append(acc, <<k, v>>)

\* the reducer of data.reduce
\* (variant: the type of the value is not tested)
ProjectRowKeyOnly(acc, item, lang) ==
    LET key == Get(item, "key")
        value == Get(item, lang)
    IN IF TypeOf(key) = "string" THEN Put(acc, key.v, value.v) ELSE acc
\* (variant: the reducer returns a fresh object holding the row's entry)
ProjectRowKeepsLast(acc, item, lang) ==
    LET key == Get(item, "key")
        value == Get(item, lang)
    IN IF TypeOf(key) = "string" /\ TypeOf(value) = "string"
       THEN << <<key.v, value.v>> >>
       ELSE acc
ProjectRow(acc, item, lang) ==
    LET key == Get(item, "key")
        value == Get(item, lang)
    IN IF TypeOf(key) = "string" /\ TypeOf(value) = "string"
       THEN Put(acc, key.v, value.v)
       ELSE acc

RECURSIVE Project(_, _)
Project(rows, lang) ==
    IF rows = << >> THEN << >>
    ELSE ProjectRow(Project(SubSeq(rows, 1, Len(rows) - 1), lang), rows[Len(rows)], lang)

\* the second copy of the reduction, inside the complete callback
RECURSIVE CompleteFiltered(_, _)
CompleteFiltered(rows, lang) ==
    IF rows = << >> THEN << >>
    ELSE ProjectRow(CompleteFiltered(SubSeq(rows, 1, Len(rows) - 1), lang),
                    rows[Len(rows)], lang)

-----------------------------------------------------------------------------
(* JSON.stringify(filtered, null, 2).  The keys and values of the model    *)
(* hold no character JSON escapes and no key is an array index, so a       *)
(* string is written between quotes and the keys keep insertion order.     *)

Quote(s) == "\"" \o s \o "\""
Member(p) == "  " \o Quote(p[1]) \o ": " \o Quote(p[2])

RECURSIVE Members(_)
Members(m) ==
    IF Len(m) = 1 THEN Member(m[1])
    ELSE Members(SubSeq(m, 1, Len(m) - 1)) \o ",\n" \o Member(m[Len(m)])

Stringify(m) == IF m = << >> THEN "{}" ELSE "{\n" \o Members(m) \o "\n}"

\* downloadJson, called from a render in which selectedLanguage was lang
DownloadJson(filtered, lang) ==
    [name |-> ToLowerCase(lang) \o ".json", json |-> Stringify(filtered)]

ParseFailure == "Error parsing CSV file. Please check the file format."
ReadFailure == "Error reading file. Please try again."

-----------------------------------------------------------------------------
(* Inputs *)

\* parse results a file may deliver to the pipeline (results.data)
SampleFiles ==
    << << ("TÜRKÇE" :> Str("Merhaba")) @@
          [key |-> Str("hello"), ENGLISH |-> Str("Hello"), FRENCH |-> Str("Bonjour")] >>,
       << ("TÜRKÇE" :> Str("T")) @@
          [key |-> Str("a"), ENGLISH |-> Str("A"), FRENCH |-> NullCell],
          ("TÜRKÇE" :> NullCell) @@
          [key |-> Str("a"), ENGLISH |-> Str("A2"), FRENCH |-> Str("B")],
          [key |-> Str("b"), ENGLISH |-> Str("B2")] >>,
       << [key |-> Str("x"), ENGLISH |-> NullCell] >>,
       << >>,
       << [ENGLISH |-> Str("E"), FRENCH |-> Str("F")],
          [key |-> Num("7"), ENGLISH |-> Str("E"), FRENCH |-> Bool("true")] >> >>

Files ==
    { SampleFiles[i] : i \in 1..(IF NumFiles < Len(SampleFiles)
                                 THEN NumFiles ELSE Len(SampleFiles)) }

\* rows the projection is applied to on its own; an undefined cell is a
\* field the row does not have
KeyCells == { Str("a"), Str("b"), Num("1"), Undefined }
EnglishCells == { Str("A"), Str("A2"), NullCell }
TurkceCells == { Str("B"), Bool("true"), Undefined }
Rows ==
    { ("TÜRKÇE" :> t) @@ [key |-> k, ENGLISH |-> e] :
        k \in KeyCells, e \in EnglishCells, t \in TurkceCells }
RowLists == UNION { [1..n -> Rows] : n \in 0..MaxRows }

-----------------------------------------------------------------------------
(* The component after its first render; the effect of the mount is due. *)

Init ==
    /\ data = Null
    /\ filteredData = Null
    /\ error = Null
    /\ isLoading = FALSE
    /\ selectedLanguage = "ENGLISH"
    /\ autoDownload = TRUE
    /\ inflight = {}
    /\ uploads = 0
    /\ effectPending = TRUE
    /\ download = Null
    /\ event = [kind |-> "mount", id |-> 0]

\* useEffect(..., [data, selectedLanguage])
\* (variant: the reduction starts from the previous mapping instead of {})
UseEffectMerge ==
    /\ effectPending
    /\ effectPending' = FALSE
    /\ filteredData' =
         IF data # Null
         THEN Some(LET RECURSIVE Into(_, _)
                       Into(acc, rows) ==
                           IF rows = << >> THEN acc
                           ELSE ProjectRow(Into(acc, SubSeq(rows, 1, Len(rows) - 1)),
                                           rows[Len(rows)], selectedLanguage)
                   IN Into(IF filteredData = Null THEN << >> ELSE Val(filteredData),
                           Val(data)))
         ELSE filteredData
    /\ event' = [kind |-> "effect", id |-> 0]
    /\ UNCHANGED <<data, error, isLoading, selectedLanguage, autoDownload,
                   inflight, uploads, download>>
\* (variant: data.reverse().reduce(...), which reorders the stored rows)
UseEffectReversesRows ==
    /\ effectPending
    /\ effectPending' = FALSE
    /\ data' = IF data # Null
               THEN Some([i \in 1..Len(Val(data)) |-> Val(data)[Len(Val(data)) + 1 - i]])
               ELSE data
    /\ filteredData' = IF data # Null
                       THEN Some(Project(Val(data'), selectedLanguage))
                       ELSE filteredData
    /\ event' = [kind |-> "effect", id |-> 0]
    /\ UNCHANGED <<error, isLoading, selectedLanguage, autoDownload,
                   inflight, uploads, download>>
\* (variant: a mapping without entries is stored as null)
UseEffectDropsEmpty ==
    /\ effectPending
    /\ effectPending' = FALSE
    /\ filteredData' = IF data # Null /\ Project(Val(data), selectedLanguage) # << >>
                       THEN Some(Project(Val(data), selectedLanguage))
                       ELSE IF data # Null THEN Null ELSE filteredData
    /\ event' = [kind |-> "effect", id |-> 0]
    /\ UNCHANGED <<data, error, isLoading, selectedLanguage, autoDownload,
                   inflight, uploads, download>>
UseEffect ==
    /\ effectPending
    /\ effectPending' = FALSE
    /\ filteredData' = IF data # Null
                       THEN Some(Project(Val(data), selectedLanguage))
                       ELSE filteredData
    /\ event' = [kind |-> "effect", id |-> 0]
    /\ UNCHANGED <<data, error, isLoading, selectedLanguage, autoDownload,
                   inflight, uploads, download>>

\* the select's onChange: the browser fires it for another option only
\* (variant: the handler also drops the stored rows)
HandleLanguageChangeResets(value) ==
    /\ ~effectPending
    /\ value # selectedLanguage
    /\ selectedLanguage' = value
    /\ data' = Null
    /\ effectPending' = TRUE
    /\ event' = [kind |-> "language", id |-> 0]
    /\ UNCHANGED <<filteredData, error, isLoading, autoDownload,
                   inflight, uploads, download>>
\* (variant: the handler also clears the error message)
HandleLanguageChangeClearsError(value) ==
    /\ ~effectPending
    /\ value # selectedLanguage
    /\ selectedLanguage' = value
    /\ error' = Null
    /\ effectPending' = TRUE
    /\ event' = [kind |-> "language", id |-> 0]
    /\ UNCHANGED <<data, filteredData, isLoading, autoDownload,
                   inflight, uploads, download>>
HandleLanguageChange(value) ==
    /\ ~effectPending
    /\ value # selectedLanguage
    /\ selectedLanguage' = value
    /\ effectPending' = TRUE
    /\ event' = [kind |-> "language", id |-> 0]
    /\ UNCHANGED <<data, filteredData, error, isLoading, autoDownload,
                   inflight, uploads, download>>

\* the checkbox's onChange
SetAutoDownload(checked) ==
    /\ ~effectPending
    /\ checked # autoDownload
    /\ autoDownload' = checked
    /\ effectPending' = FALSE
    /\ event' = [kind |-> "toggle", id |-> 0]
    /\ UNCHANGED <<data, filteredData, error, isLoading, selectedLanguage,
                   inflight, uploads, download>>

\* the Download JSON button, rendered when filteredData && !autoDownload
DownloadClick ==
    /\ ~effectPending
    /\ filteredData # Null
    /\ ~autoDownload
    /\ download' = Some(DownloadJson(Val(filteredData), selectedLanguage))
    /\ effectPending' = FALSE
    /\ event' = [kind |-> "download", id |-> 0]
    /\ UNCHANGED <<data, filteredData, error, isLoading, selectedLanguage,
                   autoDownload, inflight, uploads>>

\* handleFileChange; the callbacks given to Papa.parse close over the
\* selectedLanguage and autoDownload of the render the handler belongs to
\* (variant: no early return, the reset runs without a file)
HandleFileChangeNoGuard(file) ==
    /\ ~effectPending
    /\ IF ~file
       THEN /\ error' = Null
            /\ isLoading' = TRUE
            /\ data' = Null
            /\ filteredData' = Null
            /\ effectPending' = (data # Null)
            /\ event' = [kind |-> "nofile", id |-> 0]
            /\ UNCHANGED <<selectedLanguage, autoDownload, inflight, uploads, download>>
       ELSE /\ uploads < MaxUploads
            /\ error' = Null
            /\ isLoading' = TRUE
            /\ data' = Null
            /\ filteredData' = Null
            /\ uploads' = uploads + 1
            /\ inflight' = inflight \cup
                 { [id |-> uploads + 1, lang |-> selectedLanguage, auto |-> autoDownload] }
            /\ effectPending' = (data # Null)
            /\ event' = [kind |-> "upload", id |-> uploads + 1]
            /\ UNCHANGED <<selectedLanguage, autoDownload, download>>
\* (variant: setError(null) is left out of the reset)
HandleFileChangeKeepsError(file) ==
    /\ ~effectPending
    /\ IF ~file
       THEN /\ event' = [kind |-> "nofile", id |-> 0]
            /\ UNCHANGED <<data, filteredData, error, isLoading, selectedLanguage,
                           autoDownload, inflight, uploads, effectPending, download>>
       ELSE /\ uploads < MaxUploads
            /\ isLoading' = TRUE
            /\ data' = Null
            /\ filteredData' = Null
            /\ uploads' = uploads + 1
            /\ inflight' = inflight \cup
                 { [id |-> uploads + 1, lang |-> selectedLanguage, auto |-> autoDownload] }
            /\ effectPending' = (data # Null)
            /\ event' = [kind |-> "upload", id |-> uploads + 1]
            /\ UNCHANGED <<error, selectedLanguage, autoDownload, download>>
HandleFileChange(file) ==
    /\ ~effectPending
    /\ IF ~file
       THEN /\ event' = [kind |-> "nofile", id |-> 0]
            /\ UNCHANGED <<data, filteredData, error, isLoading, selectedLanguage,
                           autoDownload, inflight, uploads, effectPending, download>>
       ELSE /\ uploads < MaxUploads
            /\ error' = Null
            /\ isLoading' = TRUE
            /\ data' = Null
            /\ filteredData' = Null
            /\ uploads' = uploads + 1
            /\ inflight' = inflight \cup
                 { [id |-> uploads + 1, lang |-> selectedLanguage, auto |-> autoDownload] }
            /\ effectPending' = (data # Null)
            /\ event' = [kind |-> "upload", id |-> uploads + 1]
            /\ UNCHANGED <<selectedLanguage, autoDownload, download>>

\* complete: (results) => ..., for the parse p; errs is results.errors.length > 0
\* (variant: setIsLoading(false) comes after the return on parser errors)
ParseCompleteKeepsLoading(p, rows, errs) ==
    /\ ~effectPending
    /\ p \in inflight
    /\ inflight' = inflight \ {p}
    /\ IF errs
       THEN /\ error' = Some(ParseFailure)
            /\ event' = [kind |-> "parseErrors", id |-> p.id]
            /\ UNCHANGED <<data, download, effectPending, isLoading>>
       ELSE /\ isLoading' = FALSE
            /\ data' = Some(rows)
            /\ effectPending' = TRUE
            /\ download' = IF p.auto
                           THEN Some(DownloadJson(CompleteFiltered(rows, p.lang), p.lang))
                           ELSE download
            /\ event' = [kind |-> IF p.auto THEN "completeExport" ELSE "complete",
                         id |-> p.id, rows |-> rows]
            /\ UNCHANGED error
    /\ UNCHANGED <<filteredData, selectedLanguage, autoDownload, uploads>>
\* (variant: no return after setError, the rows are used all the same)
ParseCompleteNoReturn(p, rows, errs) ==
    /\ ~effectPending
    /\ p \in inflight
    /\ inflight' = inflight \ {p}
    /\ isLoading' = FALSE
    /\ error' = IF errs THEN Some(ParseFailure) ELSE error
    /\ data' = Some(rows)
    /\ effectPending' = TRUE
    /\ download' = IF p.auto
                   THEN Some(DownloadJson(CompleteFiltered(rows, p.lang), p.lang))
                   ELSE download
    /\ event' = IF errs THEN [kind |-> "parseErrors", id |-> p.id]
                 ELSE [kind |-> IF p.auto THEN "completeExport" ELSE "complete",
                       id |-> p.id, rows |-> rows]
    /\ UNCHANGED <<filteredData, selectedLanguage, autoDownload, uploads>>
ParseComplete(p, rows, errs) ==
    /\ ~effectPending
    /\ p \in inflight
    /\ inflight' = inflight \ {p}
    /\ isLoading' = FALSE
    /\ IF errs
       THEN /\ error' = Some(ParseFailure)
            /\ event' = [kind |-> "parseErrors", id |-> p.id]
            /\ UNCHANGED <<data, download, effectPending>>
       ELSE /\ data' = Some(rows)
            /\ effectPending' = TRUE
            /\ download' = IF p.auto
                           THEN Some(DownloadJson(CompleteFiltered(rows, p.lang), p.lang))
                           ELSE download
            /\ event' = [kind |-> IF p.auto THEN "completeExport" ELSE "complete",
                         id |-> p.id, rows |-> rows]
            /\ UNCHANGED error
    /\ UNCHANGED <<filteredData, selectedLanguage, autoDownload, uploads>>

\* error: () => ..., for the parse p
\* (variant: the message of the complete callback is used)
ParseErrorWrongMessage(p) ==
    /\ ~effectPending
    /\ p \in inflight
    /\ inflight' = inflight \ {p}
    /\ isLoading' = FALSE
    /\ error' = Some(ParseFailure)
    /\ event' = [kind |-> "readError", id |-> p.id]
    /\ UNCHANGED <<data, filteredData, selectedLanguage, autoDownload, uploads,
                   effectPending, download>>
\* (variant: setIsLoading(false) is left out)
ParseErrorKeepsLoading(p) ==
    /\ ~effectPending
    /\ p \in inflight
    /\ inflight' = inflight \ {p}
    /\ error' = Some(ReadFailure)
    /\ event' = [kind |-> "readError", id |-> p.id]
    /\ UNCHANGED <<data, filteredData, isLoading, selectedLanguage, autoDownload,
                   uploads, effectPending, download>>
ParseError(p) ==
    /\ ~effectPending
    /\ p \in inflight
    /\ inflight' = inflight \ {p}
    /\ isLoading' = FALSE
    /\ error' = Some(ReadFailure)
    /\ event' = [kind |-> "readError", id |-> p.id]
    /\ UNCHANGED <<data, filteredData, selectedLanguage, autoDownload, uploads,
                   effectPending, download>>

Next ==
    \/ UseEffect
    \/ \E value \in Languages : HandleLanguageChange(value)
    \/ \E checked \in BOOLEAN : SetAutoDownload(checked)
    \/ DownloadClick
    \/ \E file \in BOOLEAN : HandleFileChange(file)
    \/ \E p \in inflight, rows \in Files, errs \in BOOLEAN : ParseComplete(p, rows, errs)
    \/ \E p \in inflight : ParseError(p)

Spec == Init /\ [][Next]_vars

-----------------------------------------------------------------------------
(* The projection on its own: one file has been chosen under any language  *)
(* with auto-download on, its parse delivers any list of up to MaxRows     *)
(* rows without errors, and the effect derives the mapping.                *)

InitProject ==
    /\ data = Null
    /\ filteredData = Null
    /\ error = Null
    /\ isLoading = TRUE
    /\ selectedLanguage \in Languages
    /\ autoDownload = TRUE
    /\ inflight = { [id |-> 1, lang |-> selectedLanguage, auto |-> TRUE] }
    /\ uploads = 1
    /\ effectPending = FALSE
    /\ download = Null
    /\ event = [kind |-> "upload", id |-> 1]

NextProject ==
    \/ \E p \in inflight, rows \in RowLists : ParseComplete(p, rows, FALSE)
    \/ UseEffect

SpecProject == InitProject /\ [][NextProject]_vars

-----------------------------------------------------------------------------
(* Claims *)

\* a row contributes an entry: string key and string value in the column
Qualifies(item, lang) ==
    /\ "key" \in DOMAIN item /\ item["key"].t = "string"
    /\ lang \in DOMAIN item /\ item[lang].t = "string"

QualifyingAt(rows, lang) == { i \in 1..Len(rows) : Qualifies(rows[i], lang) }

\* the mapping has been derived from the stored rows
Derived == data # Null /\ filteredData # Null /\ event.kind = "effect"

\* C1: the mapping has an entry for key k iff some row has a string key equal
\* to k and a string value in the selected column; rows whose key or value is
\* a number, a boolean, null or missing contribute nothing.  The mapping built
\* in the complete callback for the download is the same one.
C1_EntryIffQualifyingRow ==
    Derived =>
        /\ Keys(Val(filteredData)) =
             { Val(data)[i]["key"].v : i \in QualifyingAt(Val(data), selectedLanguage) }
        /\ download # Null => Val(download).json = Stringify(Val(filteredData))

C1_Witness ==
    /\ Derived
    /\ Len(Val(data)) = 2
    /\ QualifyingAt(Val(data), selectedLanguage) = {2}
    /\ Val(data)[1]["key"].t = "number"
    /\ Len(Val(filteredData)) = 1

\* C2: the value stored for a key is the value of the last qualifying row with
\* that key, no error is raised, and a later row with the key that does not
\* qualify leaves the entry alone.
C2_LastWriteWins ==
    Derived =>
        /\ error = Null
        /\ \A n \in 1..Len(Val(filteredData)) :
             LET k == Val(filteredData)[n][1]
                 same == { i \in QualifyingAt(Val(data), selectedLanguage) :
                             Val(data)[i]["key"].v = k }
                 last == CHOOSE i \in same : \A j \in same : j <= i
             IN  /\ same # {}
                 /\ Val(filteredData)[n][2] = Val(data)[last][selectedLanguage].v

C2_Witness ==
    /\ Derived
    /\ selectedLanguage = "ENGLISH"
    /\ Len(Val(data)) = 2
    /\ Val(data)[1]["key"] = Str("a") /\ Val(data)[1]["ENGLISH"] = Str("A")
    /\ Val(data)[2]["key"] = Str("a") /\ Val(data)[2]["ENGLISH"] = Str("A2")
    /\ Val(filteredData) = << <<"a", "A2">> >>

-----------------------------------------------------------------------------
(* The pipeline states of the specification, read off the state cells. *)

Parsed == data # Null /\ filteredData # Null /\ error = Null /\ ~isLoading
Failed == error # Null /\ ~isLoading
Settled == Parsed \/ Failed

\* the last handler was a Papa.parse callback
IsCallback(e) == e.kind \in {"complete", "completeExport", "parseErrors", "readError"}

\* C3: the completion of an upload that is not the most recently started one
\* changes none of rows, mapping, error message and loading indicator, and
\* exports nothing.
C3_StaleCompletionDiscarded ==
    [][ (IsCallback(event') /\ event'.id # uploads)
          => UNCHANGED <<data, filteredData, error, isLoading, download>> ]_vars

\* C4: choosing a file moves the pipeline to Loading in the same step, from any
\* state: loading on, rows, mapping and error message unset, the new parse
\* started and none of its callbacks handled.
C4_UploadResetsToLoading ==
    [][ event'.kind = "upload"
          => /\ isLoading' /\ data' = Null /\ filteredData' = Null /\ error' = Null
             /\ \E p \in inflight' : p.id = uploads' /\ p \notin inflight ]_vars

C4_Witness ==
    /\ event.kind = "upload"
    /\ uploads = 2
    /\ \A p \in inflight : p.id = 2
    /\ download # Null
    /\ isLoading /\ data = Null /\ filteredData = Null /\ error = Null

\* C5: whenever the error message is set, the rows and the mapping are unset
\* and the loading indicator is off.
C5_ErrorExcludesData ==
    error # Null => data = Null /\ filteredData = Null /\ ~isLoading

\* C6: once the derivation effect has run, the mapping is the projection of the
\* current rows onto the currently selected language when rows are set, and is
\* unset when rows are unset.
C6_MappingFullyDerived ==
    ~effectPending =>
        IF data = Null
        THEN filteredData = Null
        ELSE filteredData = Some(Project(Val(data), selectedLanguage))

C6_Witness ==
    /\ event.kind = "effect"
    /\ selectedLanguage = "TÜRKÇE"
    /\ data = Some(SampleFiles[1])
    /\ filteredData = Some(<< <<"hello", "Merhaba">> >>)
    /\ download # Null /\ Val(download).name = "english.json"

\* C7: a file exported on successful parse with auto-download enabled is named
\* after the currently selected language, lower-cased, and holds the
\* serialization of the projection of the just-parsed rows onto the currently
\* selected language, also when the language changed while the parse ran.
C7_AutoExportMatchesSelection ==
    [][ event'.kind = "completeExport"
          => /\ Val(download').name = ToLowerCase(selectedLanguage') \o ".json"
             /\ Val(download').json =
                  Stringify(Project(Val(data'), selectedLanguage')) ]_vars

\* C8: a completion with a non-empty error list sets the ParseFailure message
\* and turns loading off; the rows that came with the errors are not stored,
\* the mapping is left as it was (no projection is run or scheduled), and
\* nothing is exported.
C8_ParseErrorsFailWholeParse ==
    [][ event'.kind = "parseErrors"
          => /\ error' = Some(ParseFailure)
             /\ ~isLoading'
             /\ data' = data
             /\ filteredData' = filteredData
             /\ ~effectPending'
             /\ download' = download ]_vars

C8_Witness ==
    /\ event.kind = "parseErrors"
    /\ uploads = 1
    /\ autoDownload
    /\ Failed
    /\ error = Some(ParseFailure)
    /\ data = Null /\ filteredData = Null /\ download = Null

\* C9: in Parsed, selecting another language leaves rows, error message and
\* loading indicator as they are and starts no parse; the next step is the
\* projection, which makes the mapping the projection of the same rows onto
\* the new language, again without touching rows, error or loading.
C9_LanguageChangeReprojects ==
    [][ /\ (Parsed /\ event'.kind = "language")
          => /\ selectedLanguage' # selectedLanguage
             /\ effectPending'
             /\ UNCHANGED <<data, error, isLoading, inflight, uploads, download>>
        /\ (event.kind = "language" /\ data # Null /\ error = Null /\ ~isLoading)
          => /\ event'.kind = "effect"
             /\ filteredData' = Some(Project(Val(data), selectedLanguage))
             /\ UNCHANGED <<data, error, isLoading, inflight, uploads, download,
                            selectedLanguage>> ]_vars

C9_Witness ==
    /\ event.kind = "effect"
    /\ Parsed
    /\ uploads = 1
    /\ selectedLanguage = "TÜRKÇE"
    /\ data = Some(SampleFiles[2])
    /\ filteredData = Some(<< <<"a", "T">> >>)

-----------------------------------------------------------------------------
(* Liveness: the parser invokes a callback of a parse it was given as long *)
(* as one is outstanding (uploads are finitely many, so every parse gets   *)
(* its callback), and React runs the effect of every render.  A callback   *)
(* waits for a pending effect, so its fairness is strong.                  *)

Callback ==
    \E p \in inflight :
        \/ ParseError(p)
        \/ \E rows \in Files, errs \in BOOLEAN : ParseComplete(p, rows, errs)

FairSpec ==
    /\ Spec
    /\ WF_vars(UseEffect)
    /\ SF_vars(Callback)

\* C10: every upload eventually leaves Loading; once files are no longer
\* chosen the pipeline ends up Parsed or Failed with loading off for good, and
\* a step that chooses no file never leaves Parsed-or-Failed.
C10_EventuallySettled ==
    /\ isLoading ~> ~isLoading
    /\ <>[](uploads > 0 => Settled /\ inflight = {})
    /\ [][ (Settled /\ event'.kind # "upload") => Settled' ]_vars

C10_Witness ==
    /\ uploads = MaxUploads
    /\ inflight = {}
    /\ Parsed
    /\ event.kind = "effect"

-----------------------------------------------------------------------------

\* C11: a file is exported without a click on the button only by a completion
\* without errors, once for the parse that completes, and only if the auto-download toggle is on at that moment;
\* with the toggle off at the completion nothing is exported, and a language
\* change, a completion with errors or a read error exports nothing.
C11_AutoExportOnlyWhenToggleOn ==
    [][ /\ event'.kind = "completeExport"
             => /\ autoDownload'
                /\ \E p \in inflight : p.id = event'.id /\ p \notin inflight'
        /\ event'.kind = "complete" => ~autoDownload' /\ download' = download
        /\ event'.kind \in {"language", "effect", "toggle", "parseErrors",
                            "readError", "upload", "nofile"}
             => download' = download ]_vars

\* C12: while the error message is set, no step but the choice of a file
\* clears it, turns loading on or starts a parse; a change of language or of
\* the auto-download toggle, and the effect that follows, leave the message as
\* it is and the rows and the mapping unset.
C12_FailedIsTerminal ==
    [][ /\ (Failed /\ event'.kind # "upload")
          => /\ Failed'
             /\ inflight' \subseteq inflight
             /\ uploads' = uploads
        /\ (Failed /\ data = Null /\ filteredData = Null
              /\ event'.kind \in {"language", "toggle", "effect"})
          => /\ error' = error
             /\ data' = Null /\ filteredData' = Null
             /\ inflight' = inflight ]_vars

C12_Witness ==
    /\ event.kind = "effect"
    /\ Failed
    /\ inflight = {}
    /\ selectedLanguage # "ENGLISH"
    /\ ~autoDownload
    /\ data = Null /\ filteredData = Null

\* the row has no field of that name
Absent(item, name) == name \notin DOMAIN item \/ item[name] = Undefined

\* no row has a key field, or no row has the selected language as a field
NoKeyOrNoColumn ==
    \/ \A i \in 1..Len(Val(data)) : Absent(Val(data)[i], "key")
    \/ \A i \in 1..Len(Val(data)) : Absent(Val(data)[i], selectedLanguage)

\* C13: a parse without errors whose rows have no key field at all, or none of
\* which has the selected language as a field, is no error: no message is set,
\* loading is off, and once derived the mapping is set and empty (Parsed).
C13_EmptyMappingIsNotAnError ==
    (data # Null /\ NoKeyOrNoColumn) =>
        /\ error = Null
        /\ ~isLoading
        /\ event.kind = "effect" => Parsed /\ filteredData = Some(<< >>)

C13_Witness ==
    /\ Derived
    /\ Parsed
    /\ Len(Val(data)) = 2
    /\ \A i \in 1..2 : Absent(Val(data)[i], "key")
    /\ selectedLanguage = "ENGLISH"
    /\ Val(data)[1]["ENGLISH"] = Str("A")
    /\ filteredData = Some(<< >>)

\* the entries of a mapping, without their order
Content(m) == { m[i] : i \in 1..Len(m) }

RowOrders(n) ==
    { f \in [1..n -> 1..n] : \A i, j \in 1..n : f[i] = f[j] => i = j }

NoSharedKey(rows, lang) ==
    \A i, j \in QualifyingAt(rows, lang) :
        i # j => rows[i]["key"].v # rows[j]["key"].v

\* C14: when no two qualifying rows share a key, every permutation of the rows
\* projects to the same entries as the rows in parse order.
C14_OrderMattersOnlyForDuplicates ==
    (Derived /\ NoSharedKey(Val(data), selectedLanguage)) =>
        \A f \in RowOrders(Len(Val(data))) :
            Content(Project([i \in 1..Len(Val(data)) |-> Val(data)[f[i]]],
                            selectedLanguage))
              = Content(Val(filteredData))

C14_Witness ==
    /\ Derived
    /\ Len(Val(data)) = 2
    /\ QualifyingAt(Val(data), selectedLanguage) = {1, 2}
    /\ Val(data)[1]["key"] # Val(data)[2]["key"]
    /\ Len(Val(filteredData)) = 2

\* C15: running the projection leaves the stored rows as the parser delivered
\* them: a completion stores exactly the delivered rows, also when it projects
\* them for the download, and the effect does not change them.
C15_ProjectionLeavesRows ==
    [][ /\ event'.kind = "effect" => data' = data
        /\ event'.kind \in {"complete", "completeExport"}
             => data' = Some(event'.rows) ]_vars

C15_Witness ==
    /\ Derived
    /\ selectedLanguage # "ENGLISH"
    /\ data = Some(SampleFiles[2])
    /\ download # Null /\ Val(download).name = "english.json"

\* C16: the error message is unset, the ParseFailure message or the
\* ReadFailure message; the first is set only by a completion with parser
\* errors, the second only by the read-error callback, which turns loading off
\* and leaves the rows and the mapping as they are.
C16_TwoReportedFailures ==
    [][ /\ error' \in {Null, Some(ParseFailure), Some(ReadFailure)}
        /\ (error' # error /\ error' = Some(ParseFailure))
             => event'.kind = "parseErrors"
        /\ (error' # error /\ error' = Some(ReadFailure))
             => event'.kind = "readError"
        /\ event'.kind = "readError"
             => /\ error' = Some(ReadFailure)
                /\ ~isLoading'
                /\ ~effectPending'
                /\ UNCHANGED <<data, filteredData, download>> ]_vars

C16_Witness ==
    /\ event.kind = "readError"
    /\ uploads = 1
    /\ error = Some(ReadFailure)
    /\ ~isLoading
    /\ data = Null /\ filteredData = Null

C18_NoFileChangesNothing ==
    [][ event'.kind = "nofile"
          => UNCHANGED <<data, filteredData, error, isLoading, selectedLanguage,
                         autoDownload, inflight, uploads, effectPending,
                         download>> ]_vars

C18_Witness ==
    /\ event.kind = "nofile"
    /\ Parsed
    /\ uploads = 1

====
